---------------------------- MODULE Spec2Model ----------------------------
(***************************************************************************)
(* Model of generate_weather_calendar.py: the seven-factor sport score     *)
(* (compute_sport_score and its scorers, caps and finalizer), the          *)
(* condition-code lookups, and the hour loop of build_calendar.            *)
(*                                                                         *)
(* Numbers.  Python floats are modelled as exact fixed-point integers:     *)
(*   temperatures, dew point, wind, gust, UV   tenths of the source unit   *)
(*   precipitation amount                      hundredths of a millimetre  *)
(*   precipitation probability                 whole percent               *)
(*   visibility                                metres                      *)
(*   a factor score s                          s * SU                      *)
(*   a composite score c                       c * CU   (CU = 60 * SU)     *)
(* SU is the least common multiple of the denominators of the scorers'     *)
(* linear pieces on these grids, so every factor score is exact.  The      *)
(* weights are twentieths, so an exact weighted sum is a multiple of 3 on  *)
(* the composite grid; the float sum of line 329 is the exact sum or one   *)
(* of its two grid neighbours (its rounding error is far below 1 / CU but  *)
(* decides round() at a tie).  The comparisons of the source act on the    *)
(* readings themselves, except gust - speed > 20, which is exact for the   *)
(* whole-number speeds used here.  An Optional value is << >> (None) or    *)
(* <<v>>.                                                                  *)
(***************************************************************************)
EXTENDS Integers, Sequences, FiniteSets

None == << >>
Some(v) == <<v>>
IsNone(x) == x = << >>
Val(x) == x[1]

\* 2^4 * 3^2 * 5^3 * 7 * 17: divisible by 120, 2000, 30, 700, 9 and 17
SU == 16 * 9 * 125 * 7 * 17
\* composite 1.0: twentieths for the weights, thirds for the float error
CU == 60 * SU

Max(a, b) == IF a >= b THEN a ELSE b
Min(a, b) == IF a <= b THEN a ELSE b
Abs(a) == IF a < 0 THEN 0 - a ELSE a

\* clamp(value, lo, hi) = max(lo, min(hi, value))
clamp(value, lo, hi) == Max(lo, Min(hi, value))

(***************************************************************************)
(* Factor scorers                                                          *)
(***************************************************************************)

\* therm_comfort_score with the comfort centre of 14 degrees left out
therm_comfort_score_uncentred(apparent_temp) ==
  IF IsNone(apparent_temp) THEN 5 * SU
  ELSE LET Ta  == Val(apparent_temp)
           val == SU - Max(0, Abs(Ta) - 60) * (SU \div 120)
       IN  clamp(val, 0, SU) * 10

\* therm_comfort_score: 10 * clamp(1 - max(0, |Ta - 14| - 6) / 12, 0, 1)
therm_comfort_score(apparent_temp) ==
  IF IsNone(apparent_temp) THEN 5 * SU
  ELSE LET Ta  == Val(apparent_temp)
           val == SU - Max(0, Abs(Ta - 140) - 60) * (SU \div 120)
       IN  clamp(val, 0, SU) * 10

\* the codes precip_score zeroes outright: freezing rain and thunderstorm
PrecipHardCodes == {66, 67, 95, 96, 99}

\* precip_score: E = mm * prob / 100; 10 at E <= 0, 0 at E >= 2, linear between
precip_score(precip_mm, precip_prob, weathercode) ==
  IF ~IsNone(weathercode) /\ Val(weathercode) \in PrecipHardCodes THEN 0
  ELSE IF IsNone(precip_mm) \/ IsNone(precip_prob) THEN 6 * SU
  ELSE LET E == Val(precip_mm) * Val(precip_prob)   \* in 1/10000 mm
       IN  IF E <= 0 THEN 10 * SU
           ELSE IF E >= 20000 THEN 0
           ELSE 10 * SU - E * (SU \div 2000)

\* wind_score returning base minus malus as it is
wind_score_unclamped(wind_speed, wind_gust) ==
  LET base == IF IsNone(wind_speed) THEN 6 * SU
              ELSE LET ws == Val(wind_speed)
                   IN  IF ws <= 100 THEN 10 * SU
                       ELSE IF ws >= 400 THEN 0
                       ELSE 10 * SU - (ws - 100) * (SU \div 30)
      malus1 == IF ~IsNone(wind_gust) /\ Val(wind_gust) > 600 THEN 3 * SU ELSE 0
      malus2 == IF ~IsNone(wind_gust) /\ ~IsNone(wind_speed)
                   /\ (Val(wind_gust) - Val(wind_speed)) > 200
                THEN 3 * SU ELSE 0
  IN  base - (malus1 + malus2)

\* wind_score: base from the mean speed, malus from the gust, clamped
wind_score(wind_speed, wind_gust) ==
  LET base == IF IsNone(wind_speed) THEN 6 * SU
              ELSE LET ws == Val(wind_speed)
                   IN  IF ws <= 100 THEN 10 * SU
                       ELSE IF ws >= 400 THEN 0
                       ELSE 10 * SU - (ws - 100) * (SU \div 30)
  IN  IF IsNone(wind_gust) THEN clamp(base, 0, 10 * SU)
      ELSE LET gust   == Val(wind_gust)
               malus1 == IF gust > 600 THEN 3 * SU ELSE 0
               malus2 == IF ~IsNone(wind_speed) /\ (gust - Val(wind_speed)) > 200
                         THEN 3 * SU ELSE 0
           IN  clamp(base - (malus1 + malus2), 0, 10 * SU)

\* uv_score: a step function of the UV index
uv_score(uv_index) ==
  IF IsNone(uv_index) THEN 6 * SU
  ELSE LET uv == Val(uv_index)
       IN  IF uv <= 30 THEN 10 * SU
           ELSE IF uv <= 50 THEN 7 * SU
           ELSE IF uv <= 70 THEN 4 * SU
           ELSE IF uv <= 90 THEN 2 * SU
           ELSE 0

\* the fog codes, which cap the visibility score at 8
FogCodes == {45, 48}

\* visibility_score: 10 at >= 8 km, 0 at <= 1 km, linear between, fog cap 8
visibility_score(visibility_m, weathercode) ==
  IF IsNone(visibility_m) THEN 6 * SU
  ELSE LET m     == Val(visibility_m)
           base0 == IF m >= 8000 THEN 10 * SU
                    ELSE IF m <= 1000 THEN 0
                    ELSE (m - 1000) * (SU \div 700)
           base  == IF ~IsNone(weathercode) /\ Val(weathercode) \in FogCodes
                    THEN Min(base0, 8 * SU) ELSE base0
       IN  clamp(base, 0, 10 * SU)

\* humidity_dewpoint_score: 10 on [7, 13], linear to 0 at >= 22 and at <= -10
humidity_dewpoint_score(dew_point_c) ==
  IF IsNone(dew_point_c) THEN 6 * SU
  ELSE LET dp == Val(dew_point_c)
       IN  IF 70 <= dp /\ dp <= 130 THEN 10 * SU
           ELSE IF dp > 130
                THEN IF dp >= 220 THEN 0
                     ELSE 10 * SU - (dp - 130) * (SU \div 9)
                ELSE IF dp <= -100 THEN 0
                     ELSE (dp + 100) * (SU \div 17)

(***************************************************************************)
(* Condition-code lookups.  Each if/elif chain is modelled as the index of *)
(* the branch taken (the last index is the fall-through) and the value     *)
(* that branch returns.                                                    *)
(***************************************************************************)

\* branch taken by map_weather_code_to_icon
icon_branch(code) ==
  IF code = 0 THEN 1
  ELSE IF code \in {1, 2, 3} THEN 2
  ELSE IF code \in {45, 48} THEN 3
  ELSE IF code \in {51, 53, 55, 56, 57} THEN 4
  ELSE IF code \in {61, 63, 65, 80, 81, 82} THEN 5
  ELSE IF code \in {66, 67} THEN 6
  ELSE IF code \in {71, 73, 75, 77, 85, 86} THEN 7
  ELSE IF code = 95 THEN 8
  ELSE IF code \in {96, 99} THEN 9
  ELSE 10

\* map_weather_code_to_icon (drizzle and rain return the same glyph)
map_weather_code_to_icon(code) ==
  <<"sun", "sun_cloud", "fog", "rain_cloud", "rain_cloud", "rain_cloud_snowflake",
    "snow_cloud", "thunder_rain", "thunder_snowflake", "question_mark">>[icon_branch(code)]

\* branch taken by map_weather_code_to_description
description_branch(code) ==
  IF code = 0 THEN 1
  ELSE IF code \in {1, 2, 3} THEN 2
  ELSE IF code \in {45, 48} THEN 3
  ELSE IF code \in {51, 53, 55, 56, 57} THEN 4
  ELSE IF code \in {61, 63, 65, 80, 81, 82} THEN 5
  ELSE IF code \in {66, 67} THEN 6
  ELSE IF code \in {71, 73, 75, 77, 85, 86} THEN 7
  ELSE IF code = 95 THEN 8
  ELSE IF code \in {96, 99} THEN 9
  ELSE 10

\* map_weather_code_to_description
map_weather_code_to_description(code) ==
  <<"sonnig", "bewoelkt", "neblig", "Nieselregen", "regnerisch",
    "gefrierender Regen", "schneit", "Gewitter", "Gewitter mit Hagel",
    "unbekannt">>[description_branch(code)]

\* a baseline chain that forgot the heavy snow shower code 86
baseline_branch_without_86(c) ==
  IF c = 0 THEN 1
  ELSE IF c \in {1, 2, 3} THEN 2
  ELSE IF c \in {45, 48} THEN 3
  ELSE IF c \in {51, 53, 55, 61, 80} THEN 4
  ELSE IF c \in {56, 57, 63, 65, 81, 82, 71, 73, 75, 77, 85} THEN 5
  ELSE IF c \in {66, 67} THEN 6
  ELSE IF c \in {95, 96, 99} THEN 7
  ELSE 8

\* branch taken by code_baseline_score for a code that is present
baseline_branch(c) ==
  IF c = 0 THEN 1
  ELSE IF c \in {1, 2, 3} THEN 2
  ELSE IF c \in {45, 48} THEN 3
  ELSE IF c \in {51, 53, 55, 61, 80} THEN 4
  ELSE IF c \in {56, 57, 63, 65, 81, 82, 71, 73, 75, 77, 85, 86} THEN 5
  ELSE IF c \in {66, 67} THEN 6
  ELSE IF c \in {95, 96, 99} THEN 7
  ELSE 8

\* code_baseline_score: 10, 9, 5, 6, 2, 0.5, 0 and 5 for the fall-through
code_baseline_score(weathercode) ==
  IF IsNone(weathercode) THEN 6 * SU
  ELSE <<10 * SU, 9 * SU, 5 * SU, 6 * SU, 2 * SU, SU \div 2, 0, 5 * SU>>
         [baseline_branch(Val(weathercode))]

(***************************************************************************)
(* Caps, finalizer, rank                                                   *)
(***************************************************************************)

ThunderCodes == {95, 96, 99}
FreezingRainCodes == {66, 67}

\* apply_safety_caps that knows the plain thunderstorm code only and tests
\* the frost strictly below -2
apply_safety_caps_narrow(score_raw, weathercode, temp_c, precip_mm) ==
  LET s1 == IF ~IsNone(weathercode) /\ Val(weathercode) = 95
            THEN Min(score_raw, 2 * CU) ELSE score_raw
      ice == \/ ( /\ ~IsNone(temp_c) /\ ~IsNone(precip_mm)
                  /\ Val(temp_c) < -20 /\ Val(precip_mm) > 0 )
             \/ ( ~IsNone(weathercode) /\ Val(weathercode) \in FreezingRainCodes )
  IN  IF ice THEN Min(s1, 2 * CU) ELSE s1

\* apply_safety_caps: thunderstorm -> min 2.0; ice or freezing rain -> min 2.0
apply_safety_caps(score_raw, weathercode, temp_c, precip_mm) ==
  LET s1 == IF ~IsNone(weathercode) /\ Val(weathercode) \in ThunderCodes
            THEN Min(score_raw, 2 * CU) ELSE score_raw
      ice == \/ ( /\ ~IsNone(temp_c) /\ ~IsNone(precip_mm)
                  /\ Val(temp_c) <= -20 /\ Val(precip_mm) > 0 )
             \/ ( ~IsNone(weathercode) /\ Val(weathercode) \in FreezingRainCodes )
  IN  IF ice THEN Min(s1, 2 * CU) ELSE s1

\* the wet flag of rain_cap
wet(precip_mm, precip_prob) ==
  \/ ( ~IsNone(precip_mm) /\ Val(precip_mm) > 0 )
  \/ ( ~IsNone(precip_prob) /\ Val(precip_prob) > 33 )

\* rain_cap that takes an amount for wet only from 0.1 mm on
rain_cap_coarse(score_after_caps, precip_mm, precip_prob) ==
  IF \/ ( ~IsNone(precip_mm) /\ Val(precip_mm) >= 10 )
     \/ ( ~IsNone(precip_prob) /\ Val(precip_prob) > 33 )
  THEN Min(score_after_caps, 5 * CU)
  ELSE score_after_caps

\* a rain stage that holds a wet hour at 5.0 from below
rain_cap_floor(score_after_caps, precip_mm, precip_prob) ==
  IF wet(precip_mm, precip_prob) THEN Max(score_after_caps, 5 * CU)
  ELSE score_after_caps

\* rain_cap: min(score, 5.0) when wet, else unchanged
rain_cap(score_after_caps, precip_mm, precip_prob) ==
  IF wet(precip_mm, precip_prob) THEN Min(score_after_caps, 5 * CU)
  ELSE score_after_caps

\* rounding to the nearest integer with ties going up
round_half_up(x) ==
  IF 2 * (x % CU) >= CU THEN (x \div CU) + 1 ELSE x \div CU

\* Python 3 round(x) of a float to an int: nearest, ties to the even integer
round(x) ==
  LET q == x \div CU
      r == x % CU
  IN  IF 2 * r < CU THEN q
      ELSE IF 2 * r > CU THEN q + 1
      ELSE IF q % 2 = 0 THEN q ELSE q + 1

\* sign of the rounding error of the float sum of line 329
FloatErrors == {-1, 0, 1}

\* the weighted sum of compute_sport_score (0.25 T + 0.35 R + 0.10 W +
\* 0.15 U + 0.05 V + 0.05 H + 0.05 C) in exact arithmetic, in CU
weighted_sum(rd) ==
  3 * (   5 * therm_comfort_score(rd.apparent_temp)
        + 7 * precip_score(rd.precip_mm, rd.precip_prob, rd.weathercode)
        + 2 * wind_score(rd.wind_speed, rd.wind_gust)
        + 3 * uv_score(rd.uv_index)
        + 1 * visibility_score(rd.visibility_m, rd.weathercode)
        + 1 * humidity_dewpoint_score(rd.dew_point_c)
        + 1 * code_baseline_score(rd.weathercode) )

\* score_raw as the float of line 329 holds it: the exact sum moved by the
\* rounding error.  Float products and sums round monotonically, and the
\* float sum is exactly 0.0 for seven factors of 0.0 and exactly 10.0 for
\* seven factors of 10.0, so the error never moves a sum across 0.0 or 10.0.
score_raw_of(rd, err) ==
  LET exact == weighted_sum(rd)
  IN  IF    (exact >= 0 /\ exact + err < 0)
         \/ (exact <= 10 * CU /\ exact + err > 10 * CU)
      THEN exact
      ELSE exact + err

\* a finalizer for a 0..10 display scale
finalize_floor0(score_capped) == clamp(round(score_capped), 0, 10)

\* int(clamp(round(score_capped), 1.0, 10.0))
finalize(score_capped) == clamp(round(score_capped), 1, 10)

\* compute_sport_score with its intermediate values kept
sport_score_trace(rd, err) ==
  LET raw    == score_raw_of(rd, err)
      safety == apply_safety_caps(raw, rd.weathercode, rd.air_temp, rd.precip_mm)
      capped == rain_cap(safety, rd.precip_mm, rd.precip_prob)
  IN  [score_raw |-> raw, score_safety |-> safety, score_capped |-> capped,
       grade |-> finalize(capped)]

compute_sport_score(rd, err) == sport_score_trace(rd, err).grade

\* score_to_rank_emoji: thresholds 8, 6, 4, 2
score_to_rank_emoji(score) ==
  IF score >= 8 THEN "top"
  ELSE IF score >= 6 THEN "up_right"
  ELSE IF score >= 4 THEN "right"
  ELSE IF score >= 2 THEN "down_right"
  ELSE "down"


(***************************************************************************)
(* build_calendar: inputs                                                  *)
(***************************************************************************)

\* longest "time" array of the forecast mapping
MaxHours == 3

\* An entry of the "time" array is a local ISO timestamp without UTC offset,
\* held as its fields [day, hour, minute].
\* datetime.fromisoformat: the minute on the local time line, or None for
\* the ValueError of a string whose fields are out of range.
fromisoformat(iso_time) ==
  IF iso_time.hour \in 0..23 /\ iso_time.minute \in 0..59 /\ iso_time.day >= 0
  THEN Some(iso_time.day * 1440 + iso_time.hour * 60 + iso_time.minute)
  ELSE None

\* datetime.hour
hour_of(t) == (t \div 60) % 24

\* strftime("%Y%m%dT%H%M%S"): back from the time line to calendar fields
strftime(t) == [day |-> t \div 1440, hour |-> hour_of(t), minute |-> t % 60]

\* the system clock read by datetime.now(): day 0, 21:00
Clocks == { 21 * 60 }

\* the --hours horizon (default 24)
HoursAheadDefault == 24

\* timestamps around the window ends and the band ends for that clock and
\* horizon, and one malformed entry (hour 24)
TimeEntries ==
  { [day |-> 0, hour |-> 20, minute |-> 59],
    [day |-> 0, hour |-> 21, minute |-> 0],
    [day |-> 0, hour |-> 22, minute |-> 0],
    [day |-> 0, hour |-> 23, minute |-> 0],
    [day |-> 1, hour |-> 4,  minute |-> 0],
    [day |-> 1, hour |-> 5,  minute |-> 0],
    [day |-> 1, hour |-> 21, minute |-> 0],
    [day |-> 1, hour |-> 21, minute |-> 1],
    [day |-> 0, hour |-> 24, minute |-> 0] }

TimeArrays == UNION { [1..n -> TimeEntries] : n \in 0..MaxHours }

\* the optional field arrays build_calendar reads from the mapping
FieldKeys ==
  { "temperature_2m", "apparent_temperature", "weathercode",
    "precipitation_probability", "precipitation", "uv_index",
    "wind_speed_10m", "wind_gusts_10m", "relative_humidity_2m",
    "dew_point_2m", "visibility", "cloud_cover" }

\* sample hours: a perfect hour, a thunderstorm in frost, an hour whose
\* values are all null, a drizzle hour
SampleRows ==
  << [ temperature_2m |-> Some(150), apparent_temperature |-> Some(140),
       weathercode |-> Some(0), precipitation_probability |-> Some(0),
       precipitation |-> Some(0), uv_index |-> Some(20),
       wind_speed_10m |-> Some(50), wind_gusts_10m |-> None,
       relative_humidity_2m |-> Some(60), dew_point_2m |-> Some(100),
       visibility |-> Some(10000), cloud_cover |-> Some(0) ],
     [ temperature_2m |-> Some(-30), apparent_temperature |-> Some(-80),
       weathercode |-> Some(95), precipitation_probability |-> Some(100),
       precipitation |-> Some(600), uv_index |-> Some(100),
       wind_speed_10m |-> Some(450), wind_gusts_10m |-> Some(700),
       relative_humidity_2m |-> Some(95), dew_point_2m |-> Some(-120),
       visibility |-> Some(800), cloud_cover |-> Some(100) ],
     [ k \in FieldKeys |-> None ],
     [ temperature_2m |-> Some(90), apparent_temperature |-> Some(70),
       weathercode |-> Some(53), precipitation_probability |-> Some(40),
       precipitation |-> Some(20), uv_index |-> Some(40),
       wind_speed_10m |-> Some(250), wind_gusts_10m |-> Some(300),
       relative_humidity_2m |-> Some(80), dew_point_2m |-> Some(50),
       visibility |-> Some(4500), cloud_cover |-> Some(90) ] >>

Row(i) == SampleRows[((i - 1) % Len(SampleRows)) + 1]

FullArray(key, n) == [i \in 1..n |-> Row(i)[key]]

\* how the optional arrays of a mapping relate to its time array
Shapes == {"missing", "empty", "short", "full", "mixed"}

\* the keys a "mixed" mapping leaves out, holds empty, and holds one short
MixedMissing == {"temperature_2m", "wind_gusts_10m", "cloud_cover"}
MixedEmpty == {"uv_index", "visibility"}
MixedShort == {"precipitation", "dew_point_2m", "weathercode"}

HourlyOf(times, shape) ==
  LET n == Len(times)
      keys == CASE shape = "missing" -> {}
                [] shape = "mixed" -> FieldKeys \ MixedMissing
                [] OTHER -> FieldKeys
      arr(k) == CASE shape = "empty" -> << >>
                  [] shape = "short" -> FullArray(k, Max(n - 1, 0))
                  [] shape = "mixed" /\ k \in MixedEmpty -> << >>
                  [] shape = "mixed" /\ k \in MixedShort -> FullArray(k, Max(n - 1, 0))
                  [] OTHER -> FullArray(k, n)
  IN  [k \in keys \cup {"time"} |-> IF k = "time" THEN times ELSE arr(k)]

\* the input mappings: with and without a "time" key
Hourlies ==
  { HourlyOf(times, shape) : times \in TimeArrays, shape \in Shapes }
  \cup { [k \in {"weathercode"} |-> FullArray(k, 2)] }

\* the IANA keys the installed time zone database resolves
KnownZones == {"Europe/Berlin"}
Timezones == {"Europe/Berlin", "Mars/Olympus_Mons"}


(***************************************************************************)
(* build_calendar: state and steps                                         *)
(***************************************************************************)

VARIABLES
  hourly,              \* the mapping handed to build_calendar
  timezone,            \* the timezone identifier handed to build_calendar
  hours_ahead,         \* the hour horizon handed to build_calendar
  zoneinfo_available,  \* FALSE when "from zoneinfo import ZoneInfo" failed
  clock,               \* the system clock at the call
  tzinfo,              \* None, or the resolved zone
  now_local, cutoff,   \* the window ends, minutes on the local time line
  idx,                 \* position of the for loop in the time array (from 0)
  cal_lines,           \* the lines of the document so far
  pc,                  \* "start", "loop", "done" (returned) or "error" (raised)
  error,               \* the exception that ended the call, or "none"
  reading, result, spc,        \* one call of compute_sport_score
  lookup_codes, lookup, lpc    \* the three condition lookups of two codes

calVars == <<hourly, timezone, hours_ahead, zoneinfo_available, clock, tzinfo,
             now_local, cutoff, idx, cal_lines, pc, error>>
scoreVars == <<reading, result, spc>>
lookupVars == <<lookup_codes, lookup, lpc>>
vars == <<calVars, scoreVars, lookupVars>>

\* hourly.get(key, [])
get(h, key) == IF key \in DOMAIN h THEN h[key] ELSE << >>

\* the closure g of build_calendar: arr[i] if i < len(arr) else None
g(arr, i) == IF i < Len(arr) THEN arr[i + 1] ELSE None

\* line 396 without its "if ZoneInfo is not None": the call of None raises
resolve_tzinfo_unguarded(avail, tz) ==
  IF avail /\ tz \in KnownZones THEN [raised |-> FALSE, tzinfo |-> Some(tz)]
  ELSE [raised |-> TRUE, tzinfo |-> None]

\* tzinfo = ZoneInfo(timezone) if ZoneInfo is not None else None, as
\* [raised, tzinfo]: ZoneInfo(key) raises ZoneInfoNotFoundError for a key the
\* time zone database does not hold
resolve_tzinfo(avail, tz) ==
  IF avail
  THEN IF tz \in KnownZones THEN [raised |-> FALSE, tzinfo |-> Some(tz)]
       ELSE [raised |-> TRUE, tzinfo |-> None]
  ELSE [raised |-> FALSE, tzinfo |-> None]

\* a window test that is strict at now
outside_window_strict(start_dt, now, cut) == start_dt <= now \/ start_dt > cut

\* the window test: start_dt < now_local or start_dt > cutoff.  The entry is
\* given the zone of now_local (replace(tzinfo=...)) or both are naive; either
\* way Python compares the two wall-clock values.
outside_window(start_dt, now, cut) == start_dt < now \/ start_dt > cut

\* the band test: hour_local < 5 or hour_local > 22
outside_band(hour_local) == hour_local < 5 \/ hour_local > 22

\* safe_round_to_str(x, 1): "NA" for a value that is not a number, else the
\* value to one decimal, held in tenths; per_unit is the grid of x (10 for
\* tenths, 100 for hundredths).  A hundredths digit 5 rounds as the nearest
\* double lies; it is taken to the even tenth here and no sample has one.
safe_round_to_str(x, per_unit) ==
  IF IsNone(x) THEN <<"NA">>
  ELSE LET scaled == Val(x) * 10
           q == scaled \div per_unit
           r == scaled % per_unit
       IN  IF 2 * r < per_unit THEN <<q>>
           ELSE IF 2 * r > per_unit THEN <<q + 1>>
           ELSE IF q % 2 = 0 THEN <<q>> ELSE <<q + 1>>

\* the probability text of line 468: int(round(prob)) of a whole percent
prob_to_str(prob) == IF IsNone(prob) THEN <<"NA">> ELSE prob

header_lines ==
  << <<"BEGIN:VCALENDAR">>, <<"VERSION:2.0">>, <<"CALSCALE:GREGORIAN">>,
     <<"PRODID:-//Weather Calendar//OpenMeteo//DE">>,
     <<"REFRESH-INTERVAL;VALUE=DURATION:PT1H">>, <<"X-PUBLISHED-TTL:PT1H">> >>

\* the readings of hour i, as compute_sport_score receives them
reading_at(h, i) ==
  [ apparent_temp |-> g(get(h, "apparent_temperature"), i),
    precip_mm     |-> g(get(h, "precipitation"), i),
    precip_prob   |-> g(get(h, "precipitation_probability"), i),
    wind_speed    |-> g(get(h, "wind_speed_10m"), i),
    wind_gust     |-> g(get(h, "wind_gusts_10m"), i),
    uv_index      |-> g(get(h, "uv_index"), i),
    visibility_m  |-> g(get(h, "visibility"), i),
    dew_point_c   |-> g(get(h, "dew_point_2m"), i),
    weathercode   |-> g(get(h, "weathercode"), i),
    air_temp      |-> g(get(h, "temperature_2m"), i) ]

\* the seven lines of the VEVENT of hour i starting at minute start_dt
event_lines(h, i, start_dt, tz, err) ==
  LET rd      == reading_at(h, i)
      score   == compute_sport_score(rd, err)
      code    == rd.weathercode
      icon    == IF IsNone(code) THEN "question_mark"
                 ELSE map_weather_code_to_icon(Val(code))
      desc    == IF IsNone(code) THEN "unbekannt"
                 ELSE map_weather_code_to_description(Val(code))
      dtstart == strftime(start_dt)
      dtend   == strftime(start_dt + 60)
  IN  << <<"BEGIN:VEVENT">>,
         <<"UID", dtstart, i>>,
         <<"DTSTAMP", "utcnow">>,
         <<"DTSTART", tz, dtstart>>,
         <<"DTEND", tz, dtend>>,
         <<"SUMMARY", score_to_rank_emoji(score), score, icon, desc,
           safe_round_to_str(rd.air_temp, 10), prob_to_str(rd.precip_prob),
           safe_round_to_str(rd.precip_mm, 100), safe_round_to_str(rd.uv_index, 10)>>,
         <<"END:VEVENT">> >>

times == get(hourly, "time")
iso_time == times[idx + 1]
start_dt == Val(fromisoformat(iso_time))

idleScore == reading = None /\ result = None /\ spc = "idle"
idleLookup == lookup_codes = None /\ lookup = None /\ lpc = "idle"

Init ==
  /\ hourly \in Hourlies
  /\ timezone \in Timezones
  /\ hours_ahead = HoursAheadDefault
  /\ zoneinfo_available \in BOOLEAN
  /\ clock \in Clocks
  /\ tzinfo = None /\ now_local = 0 /\ cutoff = 0
  /\ idx = 0
  /\ cal_lines = << >>
  /\ pc = "start"
  /\ error = "none"
  /\ idleScore /\ idleLookup

\* lines 381-407, the zone resolved (or no zoneinfo module): now, cutoff, header
Prepare ==
  /\ pc = "start"
  /\ ~resolve_tzinfo(zoneinfo_available, timezone).raised
  /\ tzinfo' = resolve_tzinfo(zoneinfo_available, timezone).tzinfo
  /\ now_local' = clock
  /\ cutoff' = clock + hours_ahead * 60
  /\ cal_lines' = header_lines
  /\ idx' = 0
  /\ pc' = "loop"
  /\ UNCHANGED <<hourly, timezone, hours_ahead, zoneinfo_available, clock, error>>
  /\ UNCHANGED <<scoreVars, lookupVars>>

\* line 396 raises: the call ends with the exception, no document
PrepareRaises ==
  /\ pc = "start"
  /\ resolve_tzinfo(zoneinfo_available, timezone).raised
  /\ pc' = "error"
  /\ error' = "ZoneInfoNotFoundError"
  /\ UNCHANGED <<hourly, timezone, hours_ahead, zoneinfo_available, clock, tzinfo,
                 now_local, cutoff, idx, cal_lines>>
  /\ UNCHANGED <<scoreVars, lookupVars>>

Skip ==
  /\ idx' = idx + 1
  /\ UNCHANGED <<hourly, timezone, hours_ahead, zoneinfo_available, clock, tzinfo,
                 now_local, cutoff, cal_lines, pc, error>>
  /\ UNCHANGED <<scoreVars, lookupVars>>

\* the parse of line 412 without its try/except: the ValueError ends the call
SkipMalformed_uncaught ==
  /\ pc = "loop" /\ idx < Len(times)
  /\ IsNone(fromisoformat(iso_time))
  /\ pc' = "error"
  /\ error' = "ValueError"
  /\ UNCHANGED <<hourly, timezone, hours_ahead, zoneinfo_available, clock, tzinfo,
                 now_local, cutoff, idx, cal_lines>>
  /\ UNCHANGED <<scoreVars, lookupVars>>

\* lines 411-414: ValueError caught, continue
SkipMalformed ==
  /\ pc = "loop" /\ idx < Len(times)
  /\ IsNone(fromisoformat(iso_time))
  /\ Skip

\* lines 420-422: outside [now, cutoff], continue
SkipOutsideWindow ==
  /\ pc = "loop" /\ idx < Len(times)
  /\ ~IsNone(fromisoformat(iso_time))
  /\ outside_window(start_dt, now_local, cutoff)
  /\ Skip

\* lines 424-427: outside the 05..22 band, continue
SkipOutsideBand ==
  /\ pc = "loop" /\ idx < Len(times)
  /\ ~IsNone(fromisoformat(iso_time))
  /\ ~outside_window(start_dt, now_local, cutoff)
  /\ outside_band(hour_of(start_dt))
  /\ Skip

\* an EmitEvent that drops the hour when one of its readings is absent
EmitEvent_needs_readings ==
  /\ pc = "loop" /\ idx < Len(times)
  /\ ~IsNone(fromisoformat(iso_time))
  /\ ~outside_window(start_dt, now_local, cutoff)
  /\ ~outside_band(hour_of(start_dt))
  /\ \E err \in FloatErrors :
       cal_lines' =
         IF \E k \in {"air_temp", "precip_prob", "precip_mm", "uv_index"} :
              IsNone(reading_at(hourly, idx)[k])
         THEN cal_lines
         ELSE cal_lines \o event_lines(hourly, idx, start_dt, timezone, err)
  /\ idx' = idx + 1
  /\ UNCHANGED <<hourly, timezone, hours_ahead, zoneinfo_available, clock, tzinfo,
                 now_local, cutoff, pc, error>>
  /\ UNCHANGED <<scoreVars, lookupVars>>

\* an EmitEvent that puts the new VEVENT in front of the earlier ones
EmitEvent_in_front ==
  /\ pc = "loop" /\ idx < Len(times)
  /\ ~IsNone(fromisoformat(iso_time))
  /\ ~outside_window(start_dt, now_local, cutoff)
  /\ ~outside_band(hour_of(start_dt))
  /\ \E err \in FloatErrors :
       cal_lines' = header_lines
                    \o event_lines(hourly, idx, start_dt, timezone, err)
                    \o SubSeq(cal_lines, Len(header_lines) + 1, Len(cal_lines))
  /\ idx' = idx + 1
  /\ UNCHANGED <<hourly, timezone, hours_ahead, zoneinfo_available, clock, tzinfo,
                 now_local, cutoff, pc, error>>
  /\ UNCHANGED <<scoreVars, lookupVars>>

\* lines 429-492: score the hour and extend the document by its VEVENT
EmitEvent ==
  /\ pc = "loop" /\ idx < Len(times)
  /\ ~IsNone(fromisoformat(iso_time))
  /\ ~outside_window(start_dt, now_local, cutoff)
  /\ ~outside_band(hour_of(start_dt))
  /\ \E err \in FloatErrors :
       cal_lines' = cal_lines \o event_lines(hourly, idx, start_dt, timezone, err)
  /\ idx' = idx + 1
  /\ UNCHANGED <<hourly, timezone, hours_ahead, zoneinfo_available, clock, tzinfo,
                 now_local, cutoff, pc, error>>
  /\ UNCHANGED <<scoreVars, lookupVars>>

\* lines 494-495: close the document and return it
Finish ==
  /\ pc = "loop" /\ idx = Len(times)
  /\ cal_lines' = Append(cal_lines, <<"END:VCALENDAR">>)
  /\ pc' = "done"
  /\ UNCHANGED <<hourly, timezone, hours_ahead, zoneinfo_available, clock, tzinfo,
                 now_local, cutoff, idx, error>>
  /\ UNCHANGED <<scoreVars, lookupVars>>

Next ==
  \/ Prepare
  \/ PrepareRaises
  \/ SkipMalformed
  \/ SkipOutsideWindow
  \/ SkipOutsideBand
  \/ EmitEvent
  \/ Finish

Spec == Init /\ [][Next]_vars


(***************************************************************************)
(* compute_sport_score on its own: every combination of the sample values  *)
(* of the ten readings, each with None                                     *)
(***************************************************************************)

AppTemps     == {None, Some(140), Some(260), Some(-40)}
PrecipMms    == {None, Some(0), Some(1), Some(600)}
PrecipProbs  == {None, Some(0), Some(33), Some(34)}
WindSpeeds   == {None, Some(50), Some(400)}
WindGusts    == {None, Some(700)}
UvIndexes    == {None, Some(20), Some(100)}
Visibilities == {None, Some(10000), Some(1000)}
DewPoints    == {None, Some(100), Some(220)}
WeatherCodes == {None, Some(0), Some(45), Some(66), Some(67),
                 Some(95), Some(96), Some(99), Some(4)}
AirTemps     == {None, Some(-20), Some(-19)}

Readings ==
  [ apparent_temp : AppTemps, precip_mm : PrecipMms, precip_prob : PrecipProbs,
    wind_speed : WindSpeeds, wind_gust : WindGusts, uv_index : UvIndexes,
    visibility_m : Visibilities, dew_point_c : DewPoints,
    weathercode : WeatherCodes, air_temp : AirTemps ]

\* the calendar part at rest
idleCalendar ==
  /\ hourly = [k \in {"time"} |-> << >>]
  /\ timezone = "Europe/Berlin"
  /\ hours_ahead = HoursAheadDefault
  /\ zoneinfo_available = TRUE
  /\ clock = 0 /\ tzinfo = None /\ now_local = 0 /\ cutoff = 0
  /\ idx = 0 /\ cal_lines = << >> /\ pc = "idle" /\ error = "none"

ScoreInit == idleCalendar /\ idleScore /\ idleLookup

\* lines 304-345: one call, with the values of lines 329, 340, 342 and 345
CallScore ==
  /\ spc = "idle"
  /\ \E rd \in Readings, err \in FloatErrors :
       /\ reading' = rd
       /\ result' = sport_score_trace(rd, err)
  /\ spc' = "returned"
  /\ UNCHANGED <<calVars, lookupVars>>

\* the caller is ready for the next hour
NextHour ==
  /\ spc = "returned"
  /\ reading' = None /\ result' = None /\ spc' = "idle"
  /\ UNCHANGED <<calVars, lookupVars>>

\* largest condition code looked up (the WMO table ends at 99)
MaxCode == 99

\* inputs of the single scorers: temperatures, speeds and the UV index in
\* tenths in steps of 0.5, amounts in hundredths of a millimetre,
\* probabilities in percent, visibility in metres, every condition code
ScorerTemps       == {None} \cup { Some(5 * k) : k \in -40..90 }
ScorerPrecipMms   == {None} \cup { Some(v) : v \in {0, 1, 50, 100, 199, 200, 201, 600} }
ScorerPrecipProbs == {None} \cup { Some(v) : v \in {0, 1, 33, 34, 50, 100} }
ScorerWindSpeeds  == {None} \cup { Some(5 * k) : k \in 0..100 }
ScorerWindGusts   == {None} \cup { Some(5 * k) : k \in 0..180 }
ScorerUvIndexes   == {None} \cup { Some(5 * k) : k \in 0..24 }
ScorerVisibilities == {None} \cup { Some(250 * k) : k \in 0..40 }
ScorerDewPoints   == {None} \cup { Some(5 * k) : k \in -30..60 }
ScorerCodes       == {None} \cup { Some(c) : c \in 0..MaxCode }

\* line 321: T = therm_comfort_score(apparent_temp)
Call_therm_comfort_score ==
  /\ spc = "idle"
  /\ \E t \in ScorerTemps :
       /\ reading' = [scorer |-> "therm_comfort_score", args |-> <<t>>]
       /\ result' = [score |-> therm_comfort_score(t)]
  /\ spc' = "scored"
  /\ UNCHANGED <<calVars, lookupVars>>

\* line 322: R = precip_score(precip_mm, precip_prob, weathercode)
Call_precip_score ==
  /\ spc = "idle"
  /\ \E mm \in ScorerPrecipMms, prob \in ScorerPrecipProbs, code \in ScorerCodes :
       /\ reading' = [scorer |-> "precip_score", args |-> <<mm, prob, code>>]
       /\ result' = [score |-> precip_score(mm, prob, code)]
  /\ spc' = "scored"
  /\ UNCHANGED <<calVars, lookupVars>>

\* line 323: W = wind_score(wind_speed, wind_gust)
Call_wind_score ==
  /\ spc = "idle"
  /\ \E speed \in ScorerWindSpeeds, gust \in ScorerWindGusts :
       /\ reading' = [scorer |-> "wind_score", args |-> <<speed, gust>>]
       /\ result' = [score |-> wind_score(speed, gust)]
  /\ spc' = "scored"
  /\ UNCHANGED <<calVars, lookupVars>>

\* line 324: U = uv_score(uv_index)
Call_uv_score ==
  /\ spc = "idle"
  /\ \E uv \in ScorerUvIndexes :
       /\ reading' = [scorer |-> "uv_score", args |-> <<uv>>]
       /\ result' = [score |-> uv_score(uv)]
  /\ spc' = "scored"
  /\ UNCHANGED <<calVars, lookupVars>>

\* line 325: V = visibility_score(visibility_m, weathercode)
Call_visibility_score ==
  /\ spc = "idle"
  /\ \E vis \in ScorerVisibilities, code \in ScorerCodes :
       /\ reading' = [scorer |-> "visibility_score", args |-> <<vis, code>>]
       /\ result' = [score |-> visibility_score(vis, code)]
  /\ spc' = "scored"
  /\ UNCHANGED <<calVars, lookupVars>>

\* line 326: H = humidity_dewpoint_score(dew_point_c)
Call_humidity_dewpoint_score ==
  /\ spc = "idle"
  /\ \E dew \in ScorerDewPoints :
       /\ reading' = [scorer |-> "humidity_dewpoint_score", args |-> <<dew>>]
       /\ result' = [score |-> humidity_dewpoint_score(dew)]
  /\ spc' = "scored"
  /\ UNCHANGED <<calVars, lookupVars>>

\* line 327: C = code_baseline_score(weathercode)
Call_code_baseline_score ==
  /\ spc = "idle"
  /\ \E code \in ScorerCodes :
       /\ reading' = [scorer |-> "code_baseline_score", args |-> <<code>>]
       /\ result' = [score |-> code_baseline_score(code)]
  /\ spc' = "scored"
  /\ UNCHANGED <<calVars, lookupVars>>

\* the scorer has returned its value to the caller
ScorerReturn ==
  /\ spc = "scored"
  /\ reading' = None /\ result' = None /\ spc' = "idle"
  /\ UNCHANGED <<calVars, lookupVars>>

ScoreNext ==
  \/ CallScore
  \/ NextHour
  \/ Call_therm_comfort_score
  \/ Call_precip_score
  \/ Call_wind_score
  \/ Call_uv_score
  \/ Call_visibility_score
  \/ Call_humidity_dewpoint_score
  \/ Call_code_baseline_score
  \/ ScorerReturn

ScoreSpec == ScoreInit /\ [][ScoreNext]_vars

(***************************************************************************)
(* The three condition lookups, applied to two codes                       *)
(***************************************************************************)

lookups(c) ==
  [ icon |-> map_weather_code_to_icon(c),
    description |-> map_weather_code_to_description(c),
    baseline |-> code_baseline_score(Some(c)),
    baseline_unknown |-> baseline_branch(c) = 8 ]

LookupInit == idleCalendar /\ idleScore /\ idleLookup

\* lines 464-465 and 327 for the codes of two hours
CallLookups ==
  /\ lpc = "idle"
  /\ \E c1 \in 0..MaxCode, c2 \in 0..MaxCode :
       /\ lookup_codes' = <<c1, c2>>
       /\ lookup' = <<lookups(c1), lookups(c2)>>
  /\ lpc' = "returned"
  /\ UNCHANGED <<calVars, scoreVars>>

NextLookups ==
  /\ lpc = "returned"
  /\ lookup_codes' = None /\ lookup' = None /\ lpc' = "idle"
  /\ UNCHANGED <<calVars, scoreVars>>

LookupNext == CallLookups \/ NextLookups

LookupSpec == LookupInit /\ [][LookupNext]_vars


(***************************************************************************)
(* Properties of compute_sport_score (ScoreSpec)                           *)
(***************************************************************************)

\* composites 0.0, 0.5, ..., 10.0 handed to a cap stage
RawComposites == { k * (CU \div 2) : k \in 0..20 }

Present(x) == ~IsNone(x)
CodeIn(rd, codes) == Present(rd.weathercode) /\ Val(rd.weathercode) \in codes

\* a hazard as the safety stage is specified: thunderstorm code, freezing-rain
\* code, or frost (<= -2 degrees) with precipitation
Hazard(rd) ==
  \/ CodeIn(rd, {95, 96, 99})
  \/ CodeIn(rd, {66, 67})
  \/ ( Present(rd.air_temp) /\ Present(rd.precip_mm)
       /\ Val(rd.air_temp) <= -20 /\ Val(rd.precip_mm) > 0 )

\* a wet hour as the rain stage is specified
WetHour(rd) ==
  \/ ( Present(rd.precip_mm) /\ Val(rd.precip_mm) > 0 )
  \/ ( Present(rd.precip_prob) /\ Val(rd.precip_prob) > 33 )

\* C1: for every combination of readings the final grade is an integer in
\* 1..10, never 0, also when both caps apply to a composite of 0.0.
C1_GradeInRange ==
  spc = "returned" => result.grade \in 1..10

\* C1 witness: a thunderstorm hour, wet, whose capped composite is 0.0
C1_Witness ==
  /\ spc = "returned"
  /\ Hazard(reading) /\ WetHour(reading)
  /\ result.score_capped = 0
  /\ result.grade = 1

\* C2: under a hazard the composite after the safety stage is <= 2.0, for the
\* composite of the hour and for every other raw composite.
C2_SafetyCap ==
  (spc = "returned" /\ Hazard(reading)) =>
     /\ result.score_safety <= 2 * CU
     /\ \A raw \in RawComposites :
          apply_safety_caps(raw, reading.weathercode, reading.air_temp,
                            reading.precip_mm) <= 2 * CU

\* C2 witness: frost of exactly -2.0 with 0.01 mm and no hazard code, the raw
\* composite above 2.0 and lowered to it
C2_Witness ==
  /\ spc = "returned"
  /\ reading.air_temp = Some(-20) /\ reading.precip_mm = Some(1)
  /\ ~CodeIn(reading, {66, 67, 95, 96, 99})
  /\ result.score_raw > 2 * CU
  /\ result.score_safety = 2 * CU

\* C3: for a wet hour the composite after the rain stage is <= 5.0, for every
\* incoming composite, and the grade of the hour is <= 5.
C3_RainCap ==
  (spc = "returned" /\ WetHour(reading)) =>
     /\ result.score_capped <= 5 * CU
     /\ result.grade <= 5
     /\ \A c \in RawComposites :
          rain_cap(c, reading.precip_mm, reading.precip_prob) <= 5 * CU

\* C3 witness: 0.01 mm at probability 0 and no hazard, the composite above
\* 5.0 before the rain stage, grade 5
C3_Witness ==
  /\ spc = "returned"
  /\ reading.precip_mm = Some(1) /\ reading.precip_prob = Some(0)
  /\ ~Hazard(reading)
  /\ result.score_safety > 5 * CU
  /\ result.score_capped = 5 * CU
  /\ result.grade = 5

\* the hour of the end-to-end example (the air temperature is left open)
PerfectHour(rd) ==
  /\ rd.apparent_temp = Some(140) /\ rd.precip_mm = Some(0)
  /\ rd.precip_prob = Some(0) /\ rd.uv_index = Some(20)
  /\ rd.wind_speed = Some(50) /\ rd.wind_gust = None
  /\ rd.dew_point_c = Some(100) /\ rd.visibility_m = Some(10000)
  /\ rd.weathercode = Some(0)

\* C9: the perfect hour gets grade 10 and the highest rank category.
C9_PerfectHour ==
  (spc = "returned" /\ PerfectHour(reading)) =>
     /\ result.grade = 10
     /\ score_to_rank_emoji(result.grade) = "top"

\* C9 witness: the perfect hour has been scored, from a composite of 10.0
C9_Witness ==
  /\ spc = "returned" /\ PerfectHour(reading)
  /\ result.score_raw = 10 * CU
  /\ result.grade = 10


(***************************************************************************)
(* Properties of build_calendar (Spec)                                     *)
(***************************************************************************)

\* the hour positions of the document's event blocks, in document order
EventIdxSeq ==
  LET uid_lines == SelectSeq(cal_lines, LAMBDA l : l[1] = "UID")
  IN  [n \in 1..Len(uid_lines) |-> uid_lines[n][3]]

EventIdxs == { EventIdxSeq[n] : n \in 1..Len(EventIdxSeq) }

\* number of event blocks of the document
EventCount == Len(SelectSeq(cal_lines, LAMBDA l : l = <<"BEGIN:VEVENT">>))

\* the loop has dealt with positions 0 .. idx - 1
Running == pc \in {"loop", "done"}
Handled == 0..(idx - 1)
Entry(i) == times[i + 1]

\* an entry whose text is a timestamp
WellFormed(e) == e.hour \in 0..23 /\ e.minute \in 0..59

\* the entry's place on the time line, from its own fields
Minute(e) == (e.day * 24 + e.hour) * 60 + e.minute

\* the forward-horizon window [now, now + hours_ahead], both ends inclusive
InWindow(e) == clock <= Minute(e) /\ Minute(e) <= clock + 60 * hours_ahead

\* the local-hour band 5..22, both ends inclusive
InBand(e) == 5 <= e.hour /\ e.hour <= 22

Eligible(i) == WellFormed(Entry(i)) /\ InWindow(Entry(i)) /\ InBand(Entry(i))

\* C4: an hour with a parseable timestamp is selected if and only if it lies
\* in [now, cutoff] (both ends inclusive) and its clock hour is in 5..22.
C4_Selection ==
  Running =>
    \A i \in Handled :
      WellFormed(Entry(i)) =>
        ( i \in EventIdxs <=> (InWindow(Entry(i)) /\ InBand(Entry(i))) )

\* C4 witness: a finished run that selected the entries exactly at now and
\* exactly at cutoff and left out the entry one tick before now
C4_Witness ==
  /\ pc = "done" /\ Len(times) = 3
  /\ \E i, j, k \in Handled :
       /\ Minute(Entry(i)) = clock /\ i \in EventIdxs
       /\ Minute(Entry(j)) = clock + 60 * hours_ahead /\ j \in EventIdxs
       /\ WellFormed(Entry(k)) /\ Minute(Entry(k)) = clock - 1 /\ k \notin EventIdxs

\* C5: the number of event blocks equals the number of time entries in the
\* window and the band, whatever the optional arrays hold; a run is never
\* ended by an absent field (the one exception of the model is raised
\* before the first hour is read).
C5_EventCount ==
  /\ Running => EventCount = Cardinality({ i \in Handled : Eligible(i) })
  /\ pc = "error" => (error = "ZoneInfoNotFoundError" /\ idx = 0)

\* C5 witness: three events from a mapping without a temperature array, with
\* an empty UV array and a precipitation array shorter than the time array
C5_Witness ==
  /\ pc = "done" /\ EventCount = 3
  /\ "temperature_2m" \notin DOMAIN hourly
  /\ get(hourly, "uv_index") = << >>
  /\ Len(get(hourly, "precipitation")) = 2

\* C6: a malformed entry yields no event and does not end the run; every
\* other eligible entry, before and after it, still yields its event.
C6_MalformedSkipped ==
  /\ Running =>
       \A i \in Handled :
         /\ ~WellFormed(Entry(i)) => i \notin EventIdxs
         /\ Eligible(i) => i \in EventIdxs
  /\ error # "ValueError"
  /\ (pc = "loop" /\ idx < Len(times) /\ ~WellFormed(iso_time)) => ENABLED Next

\* C6 witness: eligible, malformed, eligible: events of positions 0 and 2
C6_Witness ==
  /\ pc = "done" /\ Len(times) = 3
  /\ Eligible(0) /\ ~WellFormed(Entry(1)) /\ Eligible(2)
  /\ EventIdxSeq = <<0, 2>>

\* C7 as stated: an identifier that cannot be resolved never makes
\* build_calendar fail.
C7_Original ==
  timezone \notin KnownZones => pc # "error"

\* C7 amended: without the zoneinfo module build_calendar does not fail,
\* whatever the identifier: now and cutoff are naive local times, the zone is
\* None, and the hours are selected; with the module, an identifier it
\* cannot resolve ends the call at line 396 with no document.
C7_FallbackWithoutZoneinfo ==
  /\ ~zoneinfo_available =>
       /\ pc # "error"
       /\ Running =>
            /\ tzinfo = None
            /\ now_local = clock
            /\ cutoff = clock + 60 * hours_ahead
            /\ \A i \in Handled : Eligible(i) => i \in EventIdxs
  /\ (zoneinfo_available /\ timezone \notin KnownZones /\ pc # "start") =>
       (pc = "error" /\ cal_lines = << >>)

\* C7 witness: no zoneinfo module, an unknown identifier, a document with
\* events
C7_Witness ==
  /\ ~zoneinfo_available /\ timezone \notin KnownZones
  /\ pc = "done" /\ EventCount >= 2

\* C8: the event blocks follow the positions of their hours in the time
\* array, strictly increasing, one block per selected hour, each block the
\* hour of its position; the document is not sorted by time.
C8_InputOrder ==
  Running =>
    /\ \A m, n \in 1..Len(EventIdxSeq) : m < n => EventIdxSeq[m] < EventIdxSeq[n]
    /\ Len(EventIdxSeq) = EventCount
    /\ \A n \in 1..Len(cal_lines) :
         cal_lines[n][1] = "UID" =>
           /\ cal_lines[n][3] \in Handled
           /\ cal_lines[n][2] = [ day |-> Entry(cal_lines[n][3]).day,
                                  hour |-> Entry(cal_lines[n][3]).hour,
                                  minute |-> Entry(cal_lines[n][3]).minute ]

\* C8 witness: two selected hours, the later one first in the time array and
\* first in the document
C8_Witness ==
  /\ pc = "done" /\ EventIdxSeq = <<0, 1>>
  /\ Minute(Entry(0)) > Minute(Entry(1))


(***************************************************************************)
(* Properties of the condition lookups (LookupSpec)                        *)
(***************************************************************************)

SameIconAndDescription ==
  /\ lookup[1].icon = lookup[2].icon
  /\ lookup[1].description = lookup[2].description

\* a code falls through one lookup exactly if it falls through all three
UnknownToAllOrNone(l) ==
  /\ (l.icon = "question_mark") = (l.description = "unbekannt")
  /\ (l.icon = "question_mark") = l.baseline_unknown

\* C10 as stated: two codes with the same icon and description have the
\* same baseline value, and a code unrecognized by one lookup is
\* unrecognized by all three.
C10_Original ==
  lpc = "returned" =>
    /\ SameIconAndDescription => lookup[1].baseline = lookup[2].baseline
    /\ UnknownToAllOrNone(lookup[1]) /\ UnknownToAllOrNone(lookup[2])

\* the drizzle and rain codes the baseline lookup rates as light and as heavy
LightWet == {51, 53, 55, 61, 80}
HeavyWet == {56, 57, 63, 65, 81, 82}

\* C10 amended: two codes with the same icon and description have the same
\* baseline value unless one is a light drizzle or rain code (baseline 6.0)
\* and the other a heavier one (baseline 2.0); a code unrecognized by one
\* lookup is unrecognized by all three.
C10_GroupingsUpToIntensity ==
  lpc = "returned" =>
    /\ SameIconAndDescription =>
         \/ lookup[1].baseline = lookup[2].baseline
         \/ \E p \in {<<1, 2>>, <<2, 1>>} :
              /\ lookup_codes[p[1]] \in LightWet /\ lookup[p[1]].baseline = 6 * SU
              /\ lookup_codes[p[2]] \in HeavyWet /\ lookup[p[2]].baseline = 2 * SU
    /\ UnknownToAllOrNone(lookup[1]) /\ UnknownToAllOrNone(lookup[2])

\* C10 witness: drizzle 51 and freezing drizzle 57, one icon and description,
\* two baseline values
C10_Witness ==
  /\ lpc = "returned" /\ lookup_codes = <<51, 57>>
  /\ SameIconAndDescription
  /\ lookup[1].baseline # lookup[2].baseline


\* ------------------------------------------------------------------
\* C11: the cap stages only lower the composite.  For the hour scored and
\* for every raw composite, the value after apply_safety_caps followed by
\* rain_cap is at most the raw composite, and it is the raw composite
\* unchanged when no hazard condition holds and the hour is not wet (amount
\* absent or <= 0, and probability absent or <= 33).
caps_of(raw, rd) ==
  rain_cap(apply_safety_caps(raw, rd.weathercode, rd.air_temp, rd.precip_mm),
           rd.precip_mm, rd.precip_prob)

NotWet(rd) ==
  /\ (IsNone(rd.precip_mm) \/ Val(rd.precip_mm) <= 0)
  /\ (IsNone(rd.precip_prob) \/ Val(rd.precip_prob) <= 33)

C11_CapsOnlyLower ==
  spc = "returned" =>
    /\ result.score_capped <= result.score_raw
    /\ (~Hazard(reading) /\ NotWet(reading)) => result.score_capped = result.score_raw
    /\ \A raw \in RawComposites \cup {result.score_raw} :
         /\ caps_of(raw, reading) <= raw
         /\ (~Hazard(reading) /\ NotWet(reading)) => caps_of(raw, reading) = raw

\* a wet hazard hour whose composite the caps lowered to 2.0
C11_Witness ==
  /\ spc = "returned"
  /\ Hazard(reading)
  /\ ~NotWet(reading)
  /\ result.score_raw > 2 * CU
  /\ result.score_capped = 2 * CU

\* an unhazardous dry hour above 5.0 passes the caps unchanged
C11_WitnessUnchanged ==
  /\ spc = "returned"
  /\ ~Hazard(reading)
  /\ NotWet(reading)
  /\ result.score_raw > 5 * CU
  /\ result.score_capped = result.score_raw

\* ------------------------------------------------------------------
\* the call of one scorer that has returned, and its arguments
Scored(name) == spc = "scored" /\ reading.scorer = name
Arg(i) == reading.args[i]
InScale(score) == 0 <= score /\ score <= 10 * SU

\* C12 as stated: each of the seven scorers returns a value in [0,10], and
\* its fixed neutral default (5.0 thermal, 6.0 the others) whenever its
\* reading is absent (for wind_score: the speed, whatever the gust; for
\* precip_score: amount and probability, whatever the code); the raw
\* composite is in [0,10].
C12_Original ==
  /\ spc = "scored" => InScale(result.score)
  /\ (Scored("therm_comfort_score") /\ IsNone(Arg(1))) => result.score = 5 * SU
  /\ (Scored("precip_score") /\ IsNone(Arg(1)) /\ IsNone(Arg(2))) => result.score = 6 * SU
  /\ (Scored("wind_score") /\ IsNone(Arg(1))) => result.score = 6 * SU
  /\ (Scored("uv_score") /\ IsNone(Arg(1))) => result.score = 6 * SU
  /\ (Scored("visibility_score") /\ IsNone(Arg(1))) => result.score = 6 * SU
  /\ (Scored("humidity_dewpoint_score") /\ IsNone(Arg(1))) => result.score = 6 * SU
  /\ (Scored("code_baseline_score") /\ IsNone(Arg(1))) => result.score = 6 * SU
  /\ spc = "returned" => (0 <= result.score_raw /\ result.score_raw <= 10 * CU)

\* C12 (amended): each of the seven scorers returns a value in [0,10] for
\* every input.  With its reading absent a scorer returns its neutral default
\* (5.0 thermal, 6.0 the others), with two exceptions: precip_score returns
\* 0.0 for a freezing-rain or thunderstorm code whatever the readings are and
\* 6.0 otherwise when amount or probability is absent; wind_score with the
\* speed absent starts from 6.0 and still subtracts 3.0 for a gust above 60
\* km/h, so it returns 3.0 then and 6.0 for an absent or lower gust.  The raw
\* composite is in [0,10].
C12_ScorersInScale ==
  /\ spc = "scored" => InScale(result.score)
  /\ (Scored("therm_comfort_score") /\ IsNone(Arg(1))) => result.score = 5 * SU
  /\ Scored("precip_score") =>
       /\ CodeIn([weathercode |-> Arg(3)], PrecipHardCodes) => result.score = 0
       /\ ( /\ ~CodeIn([weathercode |-> Arg(3)], PrecipHardCodes)
            /\ (IsNone(Arg(1)) \/ IsNone(Arg(2))) ) => result.score = 6 * SU
  /\ (Scored("wind_score") /\ IsNone(Arg(1))) =>
       IF Present(Arg(2)) /\ Val(Arg(2)) > 600
       THEN result.score = 3 * SU
       ELSE result.score = 6 * SU
  /\ (Scored("uv_score") /\ IsNone(Arg(1))) => result.score = 6 * SU
  /\ (Scored("visibility_score") /\ IsNone(Arg(1))) => result.score = 6 * SU
  /\ (Scored("humidity_dewpoint_score") /\ IsNone(Arg(1))) => result.score = 6 * SU
  /\ (Scored("code_baseline_score") /\ IsNone(Arg(1))) => result.score = 6 * SU
  /\ spc = "returned" =>
       /\ 0 <= weighted_sum(reading) /\ weighted_sum(reading) <= 10 * CU
       /\ 0 <= result.score_raw /\ result.score_raw <= 10 * CU

\* wind_score called with the speed absent and a gust of 70 km/h returned 3.0
C12_Witness ==
  /\ Scored("wind_score")
  /\ IsNone(Arg(1))
  /\ Arg(2) = Some(700)
  /\ result.score = 3 * SU

\* precip_score called with amount and probability absent for a thunderstorm
\* returned 0.0
C12_WitnessHardCode ==
  /\ Scored("precip_score")
  /\ IsNone(Arg(1)) /\ IsNone(Arg(2))
  /\ Arg(3) = Some(95)
  /\ result.score = 0

\* ------------------------------------------------------------------
\* the capped composite of the hour scored lies exactly between two integers
TieAt(k) == spc = "returned" /\ result.score_capped = (2 * k + 1) * (CU \div 2)

\* n is a nearest integer of the composite x, the even one at a tie
NearestEven(n, x) ==
  /\ Abs(x - n * CU) <= CU
  /\ 2 * Abs(x - n * CU) <= CU
  /\ (2 * Abs(x - n * CU) = CU) => n % 2 = 0

\* n is a nearest integer of the composite x, the one away from zero at a tie
NearestAway(n, x) ==
  /\ Abs(x - n * CU) <= CU
  /\ 2 * Abs(x - n * CU) <= CU
  /\ (2 * Abs(x - n * CU) = CU) => n * CU > x

\* C13 as stated: the finalizer rounds the capped composite to the nearest
\* integer, a tie away from zero (2.5 to 3, 4.5 to 5), and clamps the result
\* into 1..10.
C13_Original ==
  spc = "returned" =>
    /\ \E n \in 0..10 : NearestAway(n, result.score_capped)
                         /\ result.grade = clamp(n, 1, 10)
    /\ TieAt(2) => result.grade = 3
    /\ TieAt(4) => result.grade = 5

\* C13 (amended): the finalizer rounds the capped composite to the nearest
\* integer, a tie to the even neighbour (2.5 to 2, 3.5 to 4, 4.5 to 4), and
\* clamps the result into 1..10 (so 0.5 and everything below become 1).
C13_TiesToEven ==
  spc = "returned" =>
    /\ \E n \in 0..10 : NearestEven(n, result.score_capped)
                         /\ result.grade = clamp(n, 1, 10)
    /\ TieAt(0) => result.grade = 1
    /\ TieAt(2) => result.grade = 2
    /\ TieAt(3) => result.grade = 4
    /\ TieAt(4) => result.grade = 4

\* an hour whose capped composite is exactly 2.5 got the grade 2
C13_Witness ==
  /\ TieAt(2)
  /\ result.grade = 2

=============================================================================
